---- MODULE Spec2Model ----
(***************************************************************************)
(* State-machine model of the VR gallery: the layout builder and the       *)
(* placement engine of buildGallery (gallery.ts), the image callbacks of   *)
(* Frame (frame.ts) and the first-person controls of createControls        *)
(* (controls.ts), driven by the frame loop of main.ts.                     *)
(*                                                                         *)
(* Units.  Lengths are integers in millimetres (1.0 of the source = 1000), *)
(* angles are integers in microradians, dt is in milliseconds.  A slot     *)
(* position startX + t * (endX - startX) is kept as an exact fraction      *)
(* [n, d], so that no comparison of the source is rounded.                 *)
(***************************************************************************)
EXTENDS Integers, Sequences, FiniteSets, TLC

VARIABLES
    plan,          \* the addWallX / addWallZ calls buildGallery makes, in order
    artworks,      \* opts.artworks
    pc,            \* position inside buildGallery / start
    wi,            \* index of the next wall call of the plan
    segs,          \* segs: WallSeg[]
    colliders,     \* colliders: RectXZ[]
    si,            \* index of the segment the placement loop is at
    slot,          \* i of the slot loop of hangOnSegX / hangOnSegZ
    idx,           \* idx, the cursor into frames
    scene,         \* the Frame objects added to the scene, in order
    slotLog,       \* history: every slot the slot loop decided, in order
    ret,           \* the value buildGallery returned
    console,       \* what was written to the console
    pos,           \* camera.position
    yaw,           \* yaw of createControls
    pitch,         \* pitch of createControls
    isLocked,      \* isLocked of createControls
    keys,          \* keys of createControls
    bounds,        \* bounds of createControls (optional)
    ctlColliders,  \* colliders of createControls
    last,          \* history: the last handler that ran, with what it decided
    steps,         \* history: number of ticks and direct assignments so far
    ptr            \* history: the last mousemove event and the deltas so far

layoutVars == <<plan, artworks, pc, wi, segs, colliders, si, slot, idx, slotLog, ret>>
viewVars   == <<pos, yaw, pitch, isLocked, keys, bounds, ctlColliders, last, steps, ptr>>
vars       == <<layoutVars, scene, console, viewVars>>

----------------------------------------------------------------------------
(* Arithmetic of the host language *)

Min(a, b) == IF a < b THEN a ELSE b
Max(a, b) == IF a > b THEN a ELSE b
Abs(a)    == IF a < 0 THEN -a ELSE a

\* a / b rounded to the nearest integer (b > 0), halves away from zero
RoundDiv(a, b) == IF a >= 0 THEN (2 * a + b) \div (2 * b)
                            ELSE -((2 * (-a) + b) \div (2 * b))

\* Math.floor(a / b) for b > 0
FloorDiv(a, b) == a \div b

----------------------------------------------------------------------------
(* Dimensions of buildGallery, in millimetres *)

H          == 3600
WALL_T     == 220
DOOR_W     == 3000
WALL_GAP   == 200
CAP_MARGIN == 800
SPACING    == 3600
FRAME_W    == 1800
HALF_W     == FRAME_W \div 2
DoorTol    == 10      \* the 0.01 of the doorway tests
CornerTol  == 50      \* the 0.05 of the corner collision check
FrameY     == 1600    \* the height frames hang at

R_ATRIUM == [x0 |-> -16000, x1 |->  16000, z0 |-> -10000, z1 |-> 10000]
R_NORTH  == [x0 |-> -14000, x1 |->  14000, z0 |->  10000, z1 |-> 24000]
R_EAST   == [x0 |->  16000, x1 |->  30000, z0 |->  -8000, z1 |->  8000]
R_WEST   == [x0 |-> -30000, x1 |-> -16000, z0 |->  -8000, z1 |->  8000]

MIN_X == Min(Min(R_ATRIUM.x0, R_NORTH.x0), Min(R_EAST.x0, R_WEST.x0))
MAX_X == Max(Max(R_ATRIUM.x1, R_NORTH.x1), Max(R_EAST.x1, R_WEST.x1))
MIN_Z == Min(Min(R_ATRIUM.z0, R_NORTH.z0), Min(R_EAST.z0, R_WEST.z0))
MAX_Z == Max(Max(R_ATRIUM.z1, R_NORTH.z1), Max(R_EAST.z1, R_WEST.z1))

----------------------------------------------------------------------------
(* Layout builder: addWallX / addWallZ *)

NoDoor    == [has |-> FALSE, at |-> 0]
DoorAt(c) == [has |-> TRUE, at |-> c]

\* one call of addWallX (kind "X": p is z, [a, b] is [x0, x1]) or addWallZ
WallX(z, x0, x1, n, door) == [kind |-> "X", p |-> z, a |-> x0, b |-> x1, n |-> n, door |-> door]
WallZ(x, z0, z1, n, door) == [kind |-> "Z", p |-> x, a |-> z0, b |-> z1, n |-> n, door |-> door]

\* the state the two helpers share: the closure's segs and colliders
Built(s, c) == [segs |-> s, colliders |-> c]

\* the part of addWallX after the doorway branch: one collider, one segment
EmitWallX(st, z, x0, x1, normalToward) ==
    LET len == x1 - x0
        cx2 == x0 + x1                      \* 2 * cx
    IN  Built(
          Append(st.segs,
                 [kind |-> "X", z |-> z + normalToward * (WALL_T \div 2),
                  x0 |-> x0, x1 |-> x1, nZ |-> normalToward]),
          Append(st.colliders,
                 [minX |-> (cx2 - len) \div 2,
                  maxX |-> (cx2 + len) \div 2,
                  minZ |-> z + (IF normalToward > 0 THEN 0 ELSE -WALL_T),
                  maxZ |-> z + (IF normalToward > 0 THEN WALL_T ELSE 0)]))

\* the left sub-wall of a doorway is built when d0 > x0 + 0.01
LeftOfDoorNoTol(x0, d0) == d0 >= x0
LeftOfDoor(x0, d0) == d0 > x0 + DoorTol

\* the right sub-wall of a doorway is built when x1 > d1 + 0.01
RightOfDoorNoTol(x1, d1) == x1 > d1
RightOfDoor(x1, d1) == x1 > d1 + DoorTol

AddWallX(st, z, x0, x1, normalToward, leaveDoorAt) ==
    IF leaveDoorAt.has
    THEN LET d0 == leaveDoorAt.at - DOOR_W \div 2
             d1 == leaveDoorAt.at + DOOR_W \div 2
             s1 == IF LeftOfDoor(x0, d0) THEN EmitWallX(st, z, x0, d0, normalToward) ELSE st
         IN  IF RightOfDoor(x1, d1) THEN EmitWallX(s1, z, d1, x1, normalToward) ELSE s1
    ELSE EmitWallX(st, z, x0, x1, normalToward)

EmitWallZ(st, x, z0, z1, normalToward) ==
    LET len == z1 - z0
        cz2 == z0 + z1
    IN  Built(
          Append(st.segs,
                 [kind |-> "Z", x |-> x + normalToward * (WALL_T \div 2),
                  z0 |-> z0, z1 |-> z1, nX |-> normalToward]),
          Append(st.colliders,
                 [minX |-> x + (IF normalToward > 0 THEN 0 ELSE -WALL_T),
                  maxX |-> x + (IF normalToward > 0 THEN WALL_T ELSE 0),
                  minZ |-> (cz2 - len) \div 2,
                  maxZ |-> (cz2 + len) \div 2]))

AddWallZ(st, x, z0, z1, normalToward, leaveDoorAt) ==
    IF leaveDoorAt.has
    THEN LET d0 == leaveDoorAt.at - DOOR_W \div 2
             d1 == leaveDoorAt.at + DOOR_W \div 2
             s1 == IF LeftOfDoor(z0, d0) THEN EmitWallZ(st, x, z0, d0, normalToward) ELSE st
         IN  IF RightOfDoor(z1, d1) THEN EmitWallZ(s1, x, d1, z1, normalToward) ELSE s1
    ELSE EmitWallZ(st, x, z0, z1, normalToward)

AddWall(st, w) ==
    IF w.kind = "X" THEN AddWallX(st, w.p, w.a, w.b, w.n, w.door)
                    ELSE AddWallZ(st, w.p, w.a, w.b, w.n, w.door)

\* the wall calls of buildGallery, in the order it makes them
GalleryPlan == <<
    WallX(R_ATRIUM.z0, R_ATRIUM.x0, R_ATRIUM.x1,  1, DoorAt(0)),
    WallX(R_ATRIUM.z1, R_ATRIUM.x0, R_ATRIUM.x1, -1, DoorAt(0)),
    WallZ(R_ATRIUM.x0, R_ATRIUM.z0, R_ATRIUM.z1,  1, DoorAt(0)),
    WallZ(R_ATRIUM.x1, R_ATRIUM.z0, R_ATRIUM.z1, -1, DoorAt(0)),
    WallX((R_ATRIUM.z0 + R_ATRIUM.z1) \div 2 - 2000, R_ATRIUM.x0 + 2000, R_ATRIUM.x1 - 2000, 1, NoDoor),
    WallZ((R_ATRIUM.x0 + R_ATRIUM.x1) \div 2 - 4000, R_ATRIUM.z0 + 2000, R_ATRIUM.z1 - 2000, 1, NoDoor),
    WallX(R_NORTH.z0, R_NORTH.x0, R_NORTH.x1,  1, DoorAt(0)),
    WallX(R_NORTH.z1, R_NORTH.x0, R_NORTH.x1, -1, NoDoor),
    WallZ(R_NORTH.x0, R_NORTH.z0, R_NORTH.z1,  1, NoDoor),
    WallZ(R_NORTH.x1, R_NORTH.z0, R_NORTH.z1, -1, NoDoor),
    WallX(R_NORTH.z0 + 4000, R_NORTH.x0 + 2000, R_NORTH.x1 - 6000, 1, NoDoor),
    WallZ(R_NORTH.x1 - 6000, R_NORTH.z0 + 4000, R_NORTH.z1 - 2000, -1, NoDoor),
    WallZ(R_EAST.x0, R_EAST.z0, R_EAST.z1,  1, DoorAt(0)),
    WallZ(R_EAST.x1, R_EAST.z0, R_EAST.z1, -1, NoDoor),
    WallX(R_EAST.z0, R_EAST.x0, R_EAST.x1,  1, NoDoor),
    WallX(R_EAST.z1, R_EAST.x0, R_EAST.x1, -1, NoDoor),
    WallX((R_EAST.z0 + R_EAST.z1) \div 2, R_EAST.x0 + 2000, R_EAST.x1 - 2000, 1, NoDoor),
    WallZ(R_WEST.x1, R_WEST.z0, R_WEST.z1, -1, DoorAt(0)),
    WallZ(R_WEST.x0, R_WEST.z0, R_WEST.z1,  1, NoDoor),
    WallX(R_WEST.z0, R_WEST.x0, R_WEST.x1,  1, NoDoor),
    WallX(R_WEST.z1, R_WEST.x0, R_WEST.x1, -1, NoDoor),
    WallZ((R_WEST.x0 + R_WEST.x1) \div 2, R_WEST.z0 + 2000, R_WEST.z1 - 2000, 1, NoDoor),
    WallX((R_WEST.z0 + R_WEST.z1) \div 2 - 2000, R_WEST.x0 + 2000, R_WEST.x1 - 2000, 1, NoDoor) >>

----------------------------------------------------------------------------
(* Placement engine: hangOnSegX / hangOnSegZ *)

\* an exact fraction n / d, d > 0
Frac(n, d) == [n |-> n, d |-> d]
Whole(a)   == Frac(a, 1)

SegStart(seg) == IF seg.kind = "X" THEN seg.x0 ELSE seg.z0
SegEnd(seg)   == IF seg.kind = "X" THEN seg.x1 ELSE seg.z1

\* usable = (seg.x1 - seg.x0) - 2 * (CAP_MARGIN + HALF_W)
Usable(seg) == (SegEnd(seg) - SegStart(seg)) - 2 * (CAP_MARGIN + HALF_W)

\* count = Math.floor(usable / SPACING) + 1, for usable > 0
SlotCount(seg) == FloorDiv(Usable(seg), SPACING) + 1

\* startX + t * (endX - startX), t = 0.5 for one slot and i / (count - 1) otherwise
SlotAlong(seg, i) ==
    LET count  == SlotCount(seg)
        startX == SegStart(seg) + CAP_MARGIN + HALF_W
        endX   == SegEnd(seg) - CAP_MARGIN - HALF_W
    IN  IF count = 1
        THEN Frac(2 * startX + (endX - startX), 2)
        ELSE Frac(startX * (count - 1) + i * (endX - startX), count - 1)

\* the coordinate across the wall: the inner face moved WALL_GAP into the room
SlotAcross(seg) ==
    IF seg.kind = "X" THEN seg.z + (IF seg.nZ > 0 THEN WALL_GAP ELSE -WALL_GAP)
                      ELSE seg.x + (IF seg.nX > 0 THEN WALL_GAP ELSE -WALL_GAP)

\* Math.abs(plane - f) < HALF_W + 0.05, for the fraction f
NearPlaneLax(plane, f) == Abs(plane * f.d - f.n) < CornerTol * f.d
NearPlane(plane, f) == Abs(plane * f.d - f.n) < (HALF_W + CornerTol) * f.d

\* v >= lo - 0.05 && v <= hi + 0.05
InsideSpan(v, lo, hi) == v >= lo - CornerTol /\ v <= hi + CornerTol

\* segs.some(...) of hangOnSegX: a wall along Z near x whose span holds z
HitWallX(all, x, z) ==
    \E k \in 1..Len(all) :
        /\ all[k].kind = "Z"
        /\ NearPlane(all[k].x, x)
        /\ InsideSpan(z, all[k].z0, all[k].z1)

\* segs.some(...) of hangOnSegZ: a wall along X near z whose span holds x
HitWallZ(all, x, z) ==
    \E k \in 1..Len(all) :
        /\ all[k].kind = "X"
        /\ NearPlane(all[k].z, z)
        /\ InsideSpan(x, all[k].x0, all[k].x1)

HitWall(all, seg, i) ==
    IF seg.kind = "X" THEN HitWallX(all, SlotAlong(seg, i), SlotAcross(seg))
                      ELSE HitWallZ(all, SlotAcross(seg), SlotAlong(seg, i))

\* f.rotation.y in degrees: 0 or Math.PI on X walls, +-Math.PI/2 on Z walls
Facing(seg) ==
    IF seg.kind = "X" THEN (IF seg.nZ > 0 THEN 0 ELSE 180)
                      ELSE (IF seg.nX > 0 THEN 90 ELSE -90)

\* f.position.set(x, 1.6, z)
SlotPosition(seg, i) ==
    IF seg.kind = "X"
    THEN [x |-> SlotAlong(seg, i), y |-> FrameY, z |-> Whole(SlotAcross(seg))]
    ELSE [x |-> Whole(SlotAcross(seg)), y |-> FrameY, z |-> SlotAlong(seg, i)]

\* new Frame(meta, url, FRAME_W): the picture shows the fallback texture and
\* the loader has the image request in flight
NewFrame(meta, seg, i) ==
    [meta |-> meta, position |-> SlotPosition(seg, i), rotationY |-> Facing(seg),
     map |-> "fallback", load |-> "pending"]

\* the cursor after a slot was rejected by the corner check: continue, no idx++
IdxAfterRejectBump(k) == k + 1
IdxAfterReject(k) == k

\* the record an accepted slot hangs: frames[idx++]
TakeNext(frames, k) == frames[k + 1]

\* the guard of the slot loop: i < count && idx < frames.length
SlotLoopGuardEarly(i, count, k, n) == i < count /\ k + 1 < n
SlotLoopGuard(i, count, k, n) == i < count /\ k < n

----------------------------------------------------------------------------
(* buildGallery, step by step *)

\* a wall call of the plan is made
BuildWall ==
    /\ pc = "build"
    /\ wi <= Len(plan)
    /\ LET st == AddWall(Built(segs, colliders), plan[wi])
       IN  /\ segs' = st.segs
           /\ colliders' = st.colliders
    /\ wi' = wi + 1
    /\ UNCHANGED <<plan, artworks, pc, si, slot, idx, slotLog, ret, scene, console, viewVars>>

\* frames = [...opts.artworks]; idx = 0; the segment loop starts
BeginPlacement ==
    /\ pc = "build"
    /\ wi > Len(plan)
    /\ pc' = "place"
    /\ si' = 1
    /\ idx' = 0
    /\ UNCHANGED <<plan, artworks, wi, segs, colliders, slot, slotLog, ret, scene, console, viewVars>>

\* for (const seg of segs) { if (idx >= frames.length) break; hangOnSeg(seg) },
\* up to the slot loop of hangOnSeg (usable <= 0 returns at once)
NextSeg ==
    /\ pc = "place"
    /\ IF si > Len(segs) \/ idx >= Len(artworks)
       THEN /\ pc' = "return"
            /\ UNCHANGED <<si, slot>>
       ELSE IF Usable(segs[si]) <= 0
            THEN /\ si' = si + 1
                 /\ UNCHANGED <<pc, slot>>
            ELSE /\ pc' = "slots"
                 /\ slot' = 0
                 /\ UNCHANGED si
    /\ UNCHANGED <<plan, artworks, wi, segs, colliders, idx, slotLog, ret, scene, console, viewVars>>

\* one turn of the slot loop of hangOnSegX / hangOnSegZ
HangSlot ==
    /\ pc = "slots"
    /\ LET seg == segs[si]
       IN  IF SlotLoopGuard(slot, SlotCount(seg), idx, Len(artworks))
           THEN IF HitWall(segs, seg, slot)
                THEN /\ idx' = IdxAfterReject(idx)
                     /\ slotLog' = Append(slotLog, [seg |-> si, i |-> slot, accepted |-> FALSE])
                     /\ slot' = slot + 1
                     /\ UNCHANGED <<pc, si, scene>>
                ELSE /\ scene' = Append(scene, NewFrame(TakeNext(artworks, idx), seg, slot))
                     /\ idx' = idx + 1
                     /\ slotLog' = Append(slotLog, [seg |-> si, i |-> slot, accepted |-> TRUE])
                     /\ slot' = slot + 1
                     /\ UNCHANGED <<pc, si>>
           ELSE /\ pc' = "place"
                /\ si' = si + 1
                /\ UNCHANGED <<slot, idx, slotLog, scene>>
    /\ UNCHANGED <<plan, artworks, wi, segs, colliders, ret, console, viewVars>>

----------------------------------------------------------------------------
(* Return of buildGallery and start() of main.ts *)

\* bounds: the extents of the rooms, 0.6 inside
GalleryBounds ==
    [has |-> TRUE,
     minX |-> MIN_X + 600, maxX |-> MAX_X - 600,
     minY |-> 900,         maxY |-> H - 400,
     minZ |-> MIN_Z + 600, maxZ |-> MAX_Z - 600]

\* createControls called without bounds
NoBounds ==
    [has |-> FALSE, minX |-> 0, maxX |-> 0, minY |-> 0, maxY |-> 0, minZ |-> 0, maxZ |-> 0]

SuggestedSpawn ==
    [x |-> (R_ATRIUM.x0 + R_ATRIUM.x1) \div 2 - 6000, y |-> 1600,
     z |-> (R_ATRIUM.z0 + R_ATRIUM.z1) \div 2]

\* return { root, suggestedSpawn, bounds, colliders }
ReturnValue(cs) ==
    [root |-> <<>>, suggestedSpawn |-> SuggestedSpawn, bounds |-> GalleryBounds, colliders |-> cs]

NoEvent == [op |-> "none", ran |-> FALSE, afterSet |-> FALSE,
            from |-> [x |-> 0, y |-> 0, z |-> 0],
            dx |-> 0, dz |-> 0, okX |-> FALSE, okZ |-> FALSE, rx |-> 0, rz |-> 0]

\* buildGallery returns; start() copies the spawn point into the camera and
\* hands bounds and colliders to createControls (and again to setBounds,
\* setColliders)
Start ==
    /\ pc = "return"
    /\ ret' = ReturnValue(colliders)
    /\ pos' = ret'.suggestedSpawn
    /\ bounds' = ret'.bounds
    /\ ctlColliders' = ret'.colliders
    /\ pc' = "run"
    /\ UNCHANGED <<plan, artworks, wi, segs, colliders, si, slot, idx, slotLog, scene, console,
                   yaw, pitch, isLocked, keys, last, steps, ptr>>

----------------------------------------------------------------------------
(* Frame: the two callbacks of loader.load *)

\* (t) => { imgMat.map = t; imgMat.needsUpdate = true }
OnLoad(sc, k) == [sc EXCEPT ![k].map = "image", ![k].load = "loaded"]

\* (e) => console.warn('Failed to load', imageUrl, e): the frame keeps its fallback
OnErrorDrop(sc, k) == SubSeq(sc, 1, k - 1) \o SubSeq(sc, k + 1, Len(sc))
OnError(sc, k) == [sc EXCEPT ![k].load = "failed"]

LoadSuccess(k) ==
    /\ pc = "run"
    /\ k \in 1..Len(scene)
    /\ scene[k].load = "pending"
    /\ scene' = OnLoad(scene, k)
    /\ UNCHANGED <<layoutVars, console, viewVars>>

LoadFailure(k) ==
    /\ pc = "run"
    /\ k \in 1..Len(scene)
    /\ scene[k].load = "pending"
    /\ scene' = OnError(scene, k)
    /\ console' = Append(console, [warn |-> "Failed to load", url |-> scene[k].meta])
    /\ UNCHANGED <<layoutVars, viewVars>>

----------------------------------------------------------------------------
(* createControls *)

Sensitivity  == 2500      \* 0.0025 rad per pixel, in microradians
PitchLim     == 1490796   \* Math.PI/2 - 0.08, in microradians
Speed        == 3         \* 3.0 per second = 3 mm per ms
PlayerRadius == 350
MaxDt        == 50        \* the 0.05 s clamp of the frame loop, in ms

\* the mouse turns the view in steps of 314 pixels: 0.785 rad
YawQuantum == 314 * Sensitivity

\* 1000 * Math.sin(k * 0.785) and 1000 * Math.cos(k * 0.785), rounded
SinTable == [k \in -8..8 |->
    CASE k = 0 -> 0
      [] k = 1 -> 707     [] k = -1 -> -707
      [] k = 2 -> 1000    [] k = -2 -> -1000
      [] k = 3 -> 708     [] k = -3 -> -708
      [] k = 4 -> 2       [] k = -4 -> -2
      [] k = 5 -> -706    [] k = -5 -> 706
      [] k = 6 -> -1000   [] k = -6 -> 1000
      [] k = 7 -> -709    [] k = -7 -> 709
      [] k = 8 -> -3      [] k = -8 -> 3]
CosTable == [k \in -8..8 |->
    CASE k = 0 -> 1000
      [] k \in {1, -1} -> 707
      [] k \in {2, -2} -> 1
      [] k \in {3, -3} -> -706
      [] k \in {4, -4} -> -1000
      [] k \in {5, -5} -> -709
      [] k \in {6, -6} -> -2
      [] k \in {7, -7} -> 705
      [] k \in {8, -8} -> 1000]
SinMilli(y) == SinTable[y \div YawQuantum]
CosMilli(y) == CosTable[y \div YawQuantum]

\* e.key.toLowerCase()
ToLower(k) ==
    CASE k = "W" -> "w"
      [] k = "S" -> "s"
      [] k = "A" -> "a"
      [] k = "D" -> "d"
      [] k = "ArrowUp" -> "arrowup"
      [] k = "ArrowDown" -> "arrowdown"
      [] k = "ArrowLeft" -> "arrowleft"
      [] k = "ArrowRight" -> "arrowright"
      [] OTHER -> k

KeyDown(k) ==
    /\ pc = "run"
    /\ keys' = keys \cup {ToLower(k)}
    /\ UNCHANGED <<layoutVars, scene, console, pos, yaw, pitch, isLocked, bounds, ctlColliders,
                   last, ptr>>
    /\ steps' = steps + 1

KeyUp(k) ==
    /\ pc = "run"
    /\ keys' = keys \ {ToLower(k)}
    /\ UNCHANGED <<layoutVars, scene, console, pos, yaw, pitch, isLocked, bounds, ctlColliders,
                   last, ptr>>
    /\ steps' = steps + 1

\* isLocked = document.pointerLockElement === canvas
PointerLockChange(onCanvas) ==
    /\ pc = "run"
    /\ isLocked' = onCanvas
    /\ UNCHANGED <<layoutVars, scene, console, pos, yaw, pitch, keys, bounds, ctlColliders,
                   last, ptr>>
    /\ steps' = steps + 1

\* pitch = Math.max(-lim, Math.min(lim, pitch))
ClampPitchUpperOnly(p) == Min(PitchLim, p)
ClampPitch(p) == Max(-PitchLim, Min(PitchLim, p))

\* no mousemove event yet
NoPointer == [dx |-> 0, dy |-> 0, locked |-> FALSE, takenX |-> 0, taken |-> FALSE, held |-> FALSE]

\* the event as it arrived: its deltas, whether look capture was active, the
\* sum of the movementX that arrived under capture, whether any event arrived
\* under capture, and whether a non-zero delta ever arrived without it
Arrived(movementX, movementY) ==
    [dx |-> movementX, dy |-> movementY, locked |-> isLocked,
     takenX |-> IF isLocked THEN ptr.takenX + movementX ELSE ptr.takenX,
     taken |-> ptr.taken \/ isLocked,
     held |-> ptr.held \/ (~isLocked /\ (movementX # 0 \/ movementY # 0))]

\* a handler without the isLocked test
MouseMoveUngated(movementX, movementY) ==
    /\ pc = "run"
    /\ yaw' = yaw - movementX * Sensitivity
    /\ pitch' = ClampPitch(pitch - movementY * Sensitivity)
    /\ ptr' = Arrived(movementX, movementY)
    /\ UNCHANGED <<layoutVars, scene, console, pos, isLocked, keys, bounds, ctlColliders,
                   last>>
    /\ steps' = steps + 1

\* the mousemove handler
MouseMove(movementX, movementY) ==
    /\ pc = "run"
    /\ IF ~isLocked
       THEN UNCHANGED <<yaw, pitch>>
       ELSE /\ yaw' = yaw - movementX * Sensitivity
            /\ pitch' = ClampPitch(pitch - movementY * Sensitivity)
    /\ ptr' = Arrived(movementX, movementY)
    /\ UNCHANGED <<layoutVars, scene, console, pos, isLocked, keys, bounds, ctlColliders,
                   last>>
    /\ steps' = steps + 1

\* clampBounds(v)
ClampBounds(b, v) ==
    IF ~b.has THEN v
    ELSE [x |-> Min(b.maxX, Max(b.minX, v.x)),
          y |-> Min(b.maxY, Max(b.minY, v.y)),
          z |-> Min(b.maxZ, Max(b.minZ, v.z))]

\* a test against the bare colliders, without the player radius
CollidesBare(cs, x, z) ==
    \E k \in 1..Len(cs) :
        /\ x > cs[k].minX /\ x < cs[k].maxX
        /\ z > cs[k].minZ /\ z < cs[k].maxZ

\* collides(x, z): inside some collider grown by the player radius
Collides(cs, x, z) ==
    \E k \in 1..Len(cs) :
        /\ x > cs[k].minX - PlayerRadius /\ x < cs[k].maxX + PlayerRadius
        /\ z > cs[k].minZ - PlayerRadius /\ z < cs[k].maxZ + PlayerRadius

\* fwd and str of update
Fwd(ks) == IF "w" \in ks \/ "arrowup" \in ks THEN 1
           ELSE IF "s" \in ks \/ "arrowdown" \in ks THEN -1 ELSE 0
Str(ks) == IF "d" \in ks \/ "arrowright" \in ks THEN 1
           ELSE IF "a" \in ks \/ "arrowleft" \in ks THEN -1 ELSE 0

\* move = forwardDir * fwd * speed * dt + rightDir * str * speed * dt, with
\* forwardDir = (-sin yaw, 0, -cos yaw) and rightDir = (cos yaw, 0, -sin yaw)
MoveX(ks, y, dt) == RoundDiv(Speed * dt * (Fwd(ks) * (-SinMilli(y)) + Str(ks) * CosMilli(y)), 1000)
MoveZ(ks, y, dt) == RoundDiv(Speed * dt * (Fwd(ks) * (-CosMilli(y)) + Str(ks) * (-SinMilli(y))), 1000)

\* the X the Z test runs at: camera.position.x, after the X step
ZProbeXStale(xBefore, xAfter) == xBefore
ZProbeX(xBefore, xAfter) == xAfter

\* update(dt)
Update(dt) ==
    /\ pc = "run"
    /\ IF ~isLocked
       THEN /\ pos' = pos
            /\ last' = [NoEvent EXCEPT !.op = "update", !.from = pos,
                                         !.afterSet = (last.op = "set")]
       ELSE LET mx    == MoveX(keys, yaw, dt)
                mz    == MoveZ(keys, yaw, dt)
                nextX == pos.x + mx
                okX   == ~Collides(ctlColliders, nextX, pos.z)
                x1    == IF okX THEN nextX ELSE pos.x
                nextZ == pos.z + mz
                okZ   == ~Collides(ctlColliders, ZProbeX(pos.x, x1), nextZ)
                z1    == IF okZ THEN nextZ ELSE pos.z
            IN  /\ pos' = ClampBounds(bounds, [x |-> x1, y |-> pos.y, z |-> z1])
                /\ last' = [op |-> "update", ran |-> TRUE, afterSet |-> (last.op = "set"),
                            from |-> pos, dx |-> mx, dz |-> mz, okX |-> okX, okZ |-> okZ,
                            rx |-> x1, rz |-> z1]
    /\ steps' = steps + 1
    /\ UNCHANGED <<layoutVars, scene, console, yaw, pitch, isLocked, keys, bounds, ctlColliders,
                   ptr>>

\* the frame loop: dt = Math.min((now - last) / 1000, 0.05); update(dt)
Loop(elapsed) == Update(Min(elapsed, MaxDt))

\* camera.position assigned from outside, between two ticks
SetPosition(v) ==
    /\ pc = "run"
    /\ pos' = v
    /\ last' = [NoEvent EXCEPT !.op = "set", !.from = pos]
    /\ steps' = steps + 1
    /\ UNCHANGED <<layoutVars, scene, console, yaw, pitch, isLocked, keys, bounds, ctlColliders,
                   ptr>>

----------------------------------------------------------------------------
(* Bounds of the model and the inputs it draws *)

MaxArt   == 2     \* longest artwork list
MaxSteps == 4     \* input events and ticks after start, in the gallery run
MaxCtlSteps == 5  \* input events, ticks and assignments, for the controls alone
MaxTurn  == 1     \* |yaw| stays within MaxTurn quarter-ish turns of 0.785 rad
MaxWalk  == 13    \* input events and ticks of a walk from the spawn point

\* artwork lists: ascending file ids of every length up to MaxArt, and one
\* descending list
ArtLists ==
    { [k \in 1..n |-> 100 + k] : n \in 0..MaxArt } \cup
    { [k \in 1..MaxArt |-> 200 - k] }

\* a wall along X met by a wall along Z (a T or an L), built in either order
JunctionPlans ==
    LET pairs == { <<WallX(0, 0, 9000, n, NoDoor), WallZ(px, sp[1], sp[2], n, NoDoor)>> :
                     n \in {1, -1}, px \in {2500, 7000},
                     sp \in {<<-2000, 3000>>, <<-6000, 3000>>, <<1000, 6000>>} }
    IN  pairs \cup { <<pr[2], pr[1]>> : pr \in pairs }

\* walls with doorways, one too short to hang on, and a lone long wall
DoorPlans ==
    { <<WallX(0, 0, len, 1, DoorAt(c)), WallZ(-1000, 0, 5000, -1, NoDoor)>> :
        len \in {3000, 12000}, c \in {1500, 6000} } \cup
    { <<WallZ(0, 0, 3000, 1, NoDoor)>>, <<WallX(0, 0, 13000, -1, NoDoor)>>, <<>> }

Plans == {GalleryPlan} \cup JunctionPlans \cup DoorPlans

\* the time between two animation frames, in ms
Elapsed == {20, 400}

\* frame times, keys and pointer moves of the gallery run
RunElapsed == {400}
RunKeys  == {"w"}
RunMoves == {<<314, 700>>}

----------------------------------------------------------------------------
(* The gallery run: buildGallery, then start() and the event loop *)

ViewInit ==
    /\ pos = [x |-> 0, y |-> 0, z |-> 0]
    /\ yaw = 0
    /\ pitch = 0
    /\ isLocked = FALSE
    /\ keys = {}
    /\ last = NoEvent
    /\ steps = 0
    /\ ptr = NoPointer

Init ==
    /\ plan \in Plans
    /\ artworks \in ArtLists
    /\ pc = "build"
    /\ wi = 1
    /\ segs = <<>>
    /\ colliders = <<>>
    /\ si = 0
    /\ slot = 0
    /\ idx = 0
    /\ scene = <<>>
    /\ slotLog = <<>>
    /\ ret = <<>>
    /\ console = <<>>
    /\ bounds = NoBounds
    /\ ctlColliders = <<>>
    /\ ViewInit

\* an input event or a tick, while the model's step budget lasts
Budget == steps < MaxSteps

\* the pointer may turn the view only within the modelled range of yaw
TurnInRange(movementX) ==
    isLocked => Abs(yaw - movementX * Sensitivity) <= MaxTurn * YawQuantum

Next ==
    \/ BuildWall
    \/ BeginPlacement
    \/ NextSeg
    \/ HangSlot
    \/ Start
    \/ \E k \in 1..Len(scene) : LoadSuccess(k)
    \/ \E k \in 1..Len(scene) : LoadFailure(k)
    \/ Budget /\ \E k \in RunKeys : KeyDown(k)
    \/ Budget /\ \E k \in RunKeys : KeyUp(k)
    \/ Budget /\ \E b \in BOOLEAN : PointerLockChange(b)
    \/ Budget /\ \E m \in RunMoves : TurnInRange(m[1]) /\ MouseMove(m[1], m[2])
    \/ Budget /\ \E e \in RunElapsed : Loop(e)

Spec == Init /\ [][Next]_vars

----------------------------------------------------------------------------
(* Properties of the gallery run *)

Accepted == SelectSeq(slotLog, LAMBDA e : e.accepted)

\* slot <<s, i>> comes before slot <<t, j>> in the order the loops visit them
SlotBefore(d, e) == d.seg < e.seg \/ (d.seg = e.seg /\ d.i < e.i)

\* C1: placement consumes the records strictly in input order: the k-th
\* accepted slot (segments in construction order, slots by increasing index)
\* holds the k-th input record at that slot's position, a rejected slot takes
\* no record, and there are never more placements than records.
PlacementInInputOrder ==
    /\ Len(scene) <= Len(artworks)
    /\ Len(Accepted) = Len(scene)
    /\ idx = Len(Accepted)
    /\ \A k \in 1..Len(scene) :
          /\ scene[k].meta = artworks[k]
          /\ scene[k].position = SlotPosition(segs[Accepted[k].seg], Accepted[k].i)
    /\ \A j, k \in 1..Len(slotLog) : j < k => SlotBefore(slotLog[j], slotLog[k])

\* a finished run in which a rejected slot precedes an accepted one and two
\* records of a descending list were hung
PlacementInInputOrderWitness ==
    /\ pc = "run"
    /\ Len(scene) = 2
    /\ artworks[1] > artworks[2]
    /\ \E j, k \in 1..Len(slotLog) : j < k /\ ~slotLog[j].accepted /\ slotLog[k].accepted

\* |plane - f| <= HALF_W for the fraction f
WithinHalfWidth(plane, f) == Abs(plane * f.d - f.n) <= HALF_W * f.d

OnWallX(f) == f.rotationY \in {0, 180}

\* C2: corner avoidance: no frame on a wall along X has its x within HALF_W of
\* the plane of any wall along Z whose span, widened by 0.05, holds the frame's
\* z; and the same for frames on walls along Z against every wall along X;
\* over all segments of the layout.
CornerAvoidance ==
    \A k \in 1..Len(scene) : \A o \in 1..Len(segs) :
        LET f == scene[k]
            other == segs[o]
        IN  /\ (OnWallX(f) /\ other.kind = "Z") =>
                  ~ ( /\ WithinHalfWidth(other.x, f.position.x)
                      /\ f.position.z.n >= other.z0 - CornerTol
                      /\ f.position.z.n <= other.z1 + CornerTol )
            /\ (~OnWallX(f) /\ other.kind = "X") =>
                  ~ ( /\ WithinHalfWidth(other.z, f.position.z)
                      /\ f.position.x.n >= other.x0 - CornerTol
                      /\ f.position.x.n <= other.x1 + CornerTol )

\* a finished run that hung a frame and rejected a slot on a wall along X
\* because of a wall along Z that was built after it
CornerAvoidanceWitness ==
    /\ pc = "run"
    /\ Len(scene) >= 1
    /\ \E j \in 1..Len(slotLog) : \E o \in 1..Len(segs) :
          /\ ~slotLog[j].accepted
          /\ segs[slotLog[j].seg].kind = "X"
          /\ o > slotLog[j].seg
          /\ HitWallX(<<segs[o]>>, SlotAlong(segs[slotLog[j].seg], slotLog[j].i),
                      SlotAcross(segs[slotLog[j].seg]))

\* the slots of all segments that pass the corner check
AcceptedSlots ==
    UNION { { <<s, i>> : i \in { j \in 0..(SlotCount(segs[s]) - 1) : ~HitWall(segs, segs[s], j) } } :
            s \in { t \in 1..Len(segs) : Usable(segs[t]) > 0 } }

\* C6: exhaustion halts placement: the placements number min(records, accepted
\* slots of all segments); once the last record is hung no later slot is even
\* tried; with no records nothing is hung.
ExhaustionHalts ==
    /\ pc \in {"return", "run"} =>
          Len(scene) = Min(Len(artworks), Cardinality(AcceptedSlots))
    /\ (pc \in {"place", "slots", "return", "run"} /\ idx = Len(artworks) /\ idx > 0) =>
          slotLog[Len(slotLog)].accepted
    /\ Len(artworks) = 0 => scene = <<>> /\ slotLog = <<>>

\* a finished run that ran out of records with accepted slots left over
ExhaustionHaltsWitness ==
    /\ pc = "run"
    /\ Len(artworks) > 0
    /\ Len(scene) = Len(artworks)
    /\ Cardinality(AcceptedSlots) > Len(artworks)

\* C7: surplus reporting: a run given more records than accepted slots exposes
\* the number of unplaced records in what it returns or reports.
SurplusIsReported ==
    (pc = "run" /\ Len(artworks) > Len(scene)) =>
        \/ "unplaced" \in DOMAIN ret /\ ret.unplaced = Len(artworks) - Len(scene)
        \/ \E k \in 1..Len(console) :
              "unplaced" \in DOMAIN console[k] /\ console[k].unplaced = Len(artworks) - Len(scene)

\* the layout of the hung frames: record, position, facing
Placements(sc) ==
    [k \in 1..Len(sc) |-> [meta |-> sc[k].meta, position |-> sc[k].position,
                           rotationY |-> sc[k].rotationY]]

\* what a step after the return of buildGallery may do to the frames
FramesKept ==
    pc \in {"return", "run"} =>
        /\ Placements(scene') = Placements(scene)
        /\ \A k \in 1..Len(scene) :
              /\ scene'[k].map # scene[k].map =>
                    scene[k].load = "pending" /\ scene'[k].load = "loaded" /\ scene'[k].map = "image"
              /\ scene'[k].load = "failed" => scene'[k].map = "fallback"

\* C9: placement is decoupled from image loading: once buildGallery has
\* returned, no load callback and no tick changes the number of frames or any
\* frame's record, position or facing; a callback only swaps the frame's
\* texture for the image (success) or leaves the fallback (failure).
PlacementDecoupled == [][FramesKept]_vars

\* one image arrived, another failed, and a tick moved the viewer meanwhile
PlacementDecoupledWitness ==
    /\ pc = "run"
    /\ \E j, k \in 1..Len(scene) :
          /\ scene[j].load = "loaded" /\ scene[j].map = "image"
          /\ scene[k].load = "failed" /\ scene[k].map = "fallback"
    /\ last.op = "update" /\ last.ran
    /\ pos # SuggestedSpawn

----------------------------------------------------------------------------
(* One wall call on its own: addWallX / addWallZ over a range of runs *)

RunStarts   == {0, 1000}
RunEnds     == {1005, 2000, 3000, 3011, 3020, 3021, 6000}
DoorCentres == {-2000, 0, 1500, 1510, 1511, 2510, 3000, 4490, 4500, 8000}

WallCalls ==
    { WallX(0, a, b, n, d) : a \in RunStarts, b \in RunEnds, n \in {1, -1},
                             d \in {NoDoor} \cup {DoorAt(c) : c \in DoorCentres} } \cup
    { WallZ(0, a, b, n, d) : a \in RunStarts, b \in RunEnds, n \in {1, -1},
                             d \in {NoDoor} \cup {DoorAt(c) : c \in DoorCentres} }

InitWall ==
    /\ plan \in { <<w>> : w \in WallCalls }
    /\ artworks = <<>>
    /\ pc = "build"
    /\ wi = 1
    /\ segs = <<>>
    /\ colliders = <<>>
    /\ si = 0
    /\ slot = 0
    /\ idx = 0
    /\ scene = <<>>
    /\ slotLog = <<>>
    /\ ret = <<>>
    /\ console = <<>>
    /\ bounds = NoBounds
    /\ ctlColliders = <<>>
    /\ ViewInit

NextWall == BuildWall

SpecWall == InitWall /\ [][NextWall]_vars

\* the wall call, once it was made with a doorway
TheCall  == plan[1]
DoorMade == wi > 1 /\ TheCall.door.has
DoorLo   == TheCall.door.at - DOOR_W \div 2
DoorHi   == TheCall.door.at + DOOR_W \div 2

\* a collider's extent along the wall
ColliderLo(w, c) == IF w.kind = "X" THEN c.minX ELSE c.minZ
ColliderHi(w, c) == IF w.kind = "X" THEN c.maxX ELSE c.maxZ

\* C4: doorway cutting: for a run [x0, x1], x0 < x1, with a doorway centred at
\* any c, no segment or collider overlaps (c - D/2, c + D/2), every segment
\* lies inside [x0, x1], and the segments with the doorway gap cover [x0, x1]
\* but for dropped sub-runs of at most 0.01.
DoorwayCut ==
    (DoorMade /\ TheCall.a < TheCall.b) =>
        /\ \A k \in 1..Len(segs) :
              /\ SegEnd(segs[k]) <= DoorLo \/ SegStart(segs[k]) >= DoorHi
              /\ TheCall.a <= SegStart(segs[k]) /\ SegEnd(segs[k]) <= TheCall.b
        /\ \A k \in 1..Len(colliders) :
              \/ ColliderHi(TheCall, colliders[k]) <= DoorLo
              \/ ColliderLo(TheCall, colliders[k]) >= DoorHi
        /\ \A q \in TheCall.a..TheCall.b :
              \/ DoorLo <= q /\ q <= DoorHi
              \/ \E k \in 1..Len(segs) : SegStart(segs[k]) <= q /\ q <= SegEnd(segs[k])
              \/ q <= DoorLo /\ DoorLo - TheCall.a <= DoorTol
              \/ q >= DoorHi /\ TheCall.b - DoorHi <= DoorTol

\* C8: degenerate wall suppression: a sub-run left or right of the doorway of
\* length at most 0.01 gives no segment and no collider, so a doorway call
\* gives zero, one or two segments, each longer than 0.01 and each with a
\* collider with min < max on both axes.
DegenerateSuppressed ==
    DoorMade =>
        /\ Len(segs) = (IF DoorLo - TheCall.a > DoorTol THEN 1 ELSE 0)
                       + (IF TheCall.b - DoorHi > DoorTol THEN 1 ELSE 0)
        /\ Len(colliders) = Len(segs)
        /\ Len(segs) \in {0, 1, 2}
        /\ \A k \in 1..Len(segs) :
              /\ SegEnd(segs[k]) - SegStart(segs[k]) > DoorTol
              /\ colliders[k].minX < colliders[k].maxX
              /\ colliders[k].minZ < colliders[k].maxZ
              /\ ColliderLo(TheCall, colliders[k]) = SegStart(segs[k])
              /\ ColliderHi(TheCall, colliders[k]) = SegEnd(segs[k])

\* a doorway whose left sub-run is exactly 0.01 long and was dropped, while
\* the right sub-run was built
DegenerateSuppressedWitness ==
    /\ DoorMade
    /\ DoorLo - TheCall.a = DoorTol
    /\ TheCall.b - DoorHi > DoorTol
    /\ Len(segs) = 1
    /\ SegStart(segs[1]) = DoorHi

\* the run is at most as long as the doorway is wide
ShortRun == DoorMade /\ TheCall.a < TheCall.b /\ TheCall.b - TheCall.a <= DOOR_W

\* the doorway reaches both ends of the run to within 0.01
DoorCoversRun == DoorLo <= TheCall.a + DoorTol /\ DoorHi >= TheCall.b - DoorTol

\* C12 as stated: all-doorway wall: a run of length at most D built with a
\* doorway at any centre c gives zero segments and zero colliders.
AllDoorwayWall == ShortRun => (segs = <<>> /\ colliders = <<>>)

\* C12, amended: a run of length at most D built with a doorway gives zero
\* segments and zero colliders exactly when both sub-runs fail the tolerance
\* test, that is when the doorway reaches both ends of the run to within
\* 0.01, as a doorway centred on the run does.
AllDoorwayWallWhenCovered ==
    ShortRun =>
        /\ (segs = <<>> /\ colliders = <<>>) <=> DoorCoversRun
        /\ 2 * TheCall.door.at = TheCall.a + TheCall.b => DoorCoversRun

\* a run as long as the doorway is wide, with the doorway centred on it:
\* nothing was built
AllDoorwayWallWhenCoveredWitness ==
    /\ ShortRun
    /\ TheCall.b - TheCall.a = DOOR_W
    /\ 2 * TheCall.door.at = TheCall.a + TheCall.b
    /\ segs = <<>> /\ colliders = <<>>

----------------------------------------------------------------------------
(* createControls on its own: one collider, with and without bounds *)

\* the collider x in [5, 6], z in [5, 6]
TestCollider == [minX |-> 5000, maxX |-> 6000, minZ |-> 5000, maxZ |-> 6000]

\* bounds whose edge runs close by the collider
TestBounds ==
    [has |-> TRUE, minX |-> 0, maxX |-> 10000, minY |-> 900, maxY |-> 3200,
     minZ |-> 4700, maxZ |-> 10000]

At(x, y, z) == [x |-> x, y |-> y, z |-> z]

\* where the camera is when the controls are created
StartPositions == {At(4000, 1600, 4000), At(4600, 1600, 4600), At(4600, 1600, 5000)}

\* positions assigned to the camera from outside
Assignable == {At(4600, 1600, 4600), At(12000, 1600, 5000), At(5000, 500, 8000)}

CtlKeys  == {"S", "d"}
CtlMoves == {<<314, 700>>, <<-314, -700>>, <<0, 250>>, <<0, -250>>}

InitControls ==
    /\ plan = <<>>
    /\ artworks = <<>>
    /\ pc = "run"
    /\ wi = 1
    /\ segs = <<>>
    /\ colliders = <<>>
    /\ si = 0
    /\ slot = 0
    /\ idx = 0
    /\ scene = <<>>
    /\ slotLog = <<>>
    /\ ret = <<>>
    /\ console = <<>>
    /\ bounds \in {NoBounds, TestBounds}
    /\ ctlColliders = <<TestCollider>>
    /\ pos \in StartPositions
    /\ yaw = 0
    /\ pitch = 0
    /\ isLocked = FALSE
    /\ keys = {}
    /\ last = NoEvent
    /\ steps = 0
    /\ ptr = NoPointer

\* the same budget for the controls on their own
CtlBudget == steps < MaxCtlSteps

NextControls ==
    \/ CtlBudget /\ \E k \in CtlKeys : KeyDown(k)
    \/ CtlBudget /\ \E k \in CtlKeys : KeyUp(k)
    \/ CtlBudget /\ \E b \in BOOLEAN : PointerLockChange(b)
    \/ CtlBudget /\ \E m \in CtlMoves : TurnInRange(m[1]) /\ MouseMove(m[1], m[2])
    \/ CtlBudget /\ \E e \in Elapsed : Loop(e)
    \/ CtlBudget /\ \E v \in Assignable : SetPosition(v)

SpecControls == InitControls /\ [][NextControls]_vars

InBounds(b, v) ==
    /\ b.minX <= v.x /\ v.x <= b.maxX
    /\ b.minY <= v.y /\ v.y <= b.maxY
    /\ b.minZ <= v.z /\ v.z <= b.maxZ

\* the last tick moved diagonally from outside the grown collider to a point
\* inside it
SlideCase ==
    /\ last.op = "update" /\ last.ran
    /\ Len(ctlColliders) = 1
    /\ last.dx # 0 /\ last.dz # 0
    /\ ~Collides(ctlColliders, last.from.x, last.from.z)
    /\ Collides(ctlColliders, last.from.x + last.dx, last.from.z + last.dz)

XFree  == ~Collides(ctlColliders, last.from.x + last.dx, last.from.z)
XAfter == IF XFree THEN last.from.x + last.dx ELSE last.from.x
ZFree  == ~Collides(ctlColliders, XAfter, last.from.z + last.dz)

\* what the solver decides in the slide case: one axis, X by the test at
\* (x + dx, z), Z by the test at the X it arrived at
SlideDecision ==
    /\ last.okX # last.okZ
    /\ last.okX <=> XFree
    /\ last.okZ <=> ZFree

\* C3: collision sliding: in the slide case the solver commits exactly one
\* axis, X iff (x + dx, z) is free, Z iff it is free at the X arrived at; the
\* committed axis takes its delta and the blocked axis keeps its coordinate.
\* (rx, rz) is the position the two commits leave, which the tick then clamps
\* into Bounds: with no Bounds, or a start inside them, the blocked coordinate
\* is unchanged at the end of the tick as well.
SlideCommitsOneAxis ==
    SlideCase =>
        /\ SlideDecision
        /\ last.rx = (IF last.okX THEN last.from.x + last.dx ELSE last.from.x)
        /\ last.rz = (IF last.okZ THEN last.from.z + last.dz ELSE last.from.z)
        /\ pos = ClampBounds(bounds, [x |-> last.rx, y |-> last.from.y, z |-> last.rz])
        /\ (~bounds.has \/ InBounds(bounds, last.from)) =>
              /\ ~last.okX => pos.x = last.from.x
              /\ ~last.okZ => pos.z = last.from.z

\* a tick inside Bounds that was blocked on X and slid along Z
SlideCommitsOneAxisWitness ==
    /\ SlideCase
    /\ bounds.has /\ InBounds(bounds, last.from)
    /\ ~last.okX /\ last.okZ
    /\ pos.x = last.from.x
    /\ pos.z = last.from.z + last.dz

\* C5: bounds clamping: a position assigned outside Bounds is inside Bounds on
\* all three axes after the very next update, whatever the keys and whatever
\* the look-capture state.
ClampedOnNextTick ==
    (last.op = "update" /\ last.afterSet /\ bounds.has /\ ~InBounds(bounds, last.from)) =>
        InBounds(bounds, pos)

PitchInRange == -PitchLim <= pitch /\ pitch <= PitchLim

\* yaw changes only by a whole pointer delta, while look capture is active
YawStep == yaw' # yaw => isLocked /\ \E m \in CtlMoves : yaw' = yaw - m[1] * Sensitivity

\* C10: pitch limit: from pitch 0, after any pointer moves, look-capture
\* changes and ticks, pitch is within [-(pi/2 - 0.08), pi/2 - 0.08]; yaw takes
\* every delta whole, unclamped.
PitchLimit == []PitchInRange /\ [][YawStep]_vars

\* pitch was stopped at the lower limit while yaw took the whole delta
PitchLimitWitness ==
    /\ pitch = -PitchLim
    /\ yaw = -YawQuantum
    /\ last.op = "update"

\* what a step may do to the view direction: nothing while look capture is
\* inactive, nothing when capture is switched, and otherwise exactly the
\* deltas of the one event that arrived under capture
LookStep ==
    /\ ~isLocked => yaw' = yaw /\ pitch' = pitch
    /\ isLocked' # isLocked => yaw' = yaw /\ pitch' = pitch
    /\ (yaw' # yaw \/ pitch' # pitch) =>
          /\ ptr'.locked
          /\ yaw' = yaw - ptr'.dx * Sensitivity
          /\ pitch' = ClampPitch(pitch - ptr'.dy * Sensitivity)

\* yaw is made of the deltas that arrived under capture, and of nothing else
OnlyCapturedDeltas ==
    /\ yaw = -(ptr.takenX * Sensitivity)
    /\ ~ptr.taken => pitch = 0

\* C11: look capture gating: while look capture is inactive a pointer-movement
\* event changes neither yaw nor pitch, the deltas of that period are not
\* applied when capture becomes active, and a delta takes effect only for an
\* event that arrives while capture is active.
LookCaptureGating == []OnlyCapturedDeltas /\ [][LookStep]_vars

\* a delta arrived without capture and left the view alone; capture was then
\* switched on and the next event turned the view by its own delta only
LookCaptureGatingWitness ==
    /\ ptr.held
    /\ isLocked /\ ptr.locked
    /\ ptr.dx # 0 /\ ptr.takenX = ptr.dx
    /\ yaw = -(ptr.dx * Sensitivity)
    /\ pitch = ClampPitch(-(ptr.dy * Sensitivity))

----------------------------------------------------------------------------
(* A walk through the gallery buildGallery builds, from the spawn point *)

\* keys, pointer moves and frame times of the walk
WalkKeys    == {"w", "d"}
WalkMoves   == {<<-314, 0>>}
WalkElapsed == {0, 400}

InitWalk ==
    /\ plan = GalleryPlan
    /\ artworks = <<101>>
    /\ pc = "build"
    /\ wi = 1
    /\ segs = <<>>
    /\ colliders = <<>>
    /\ si = 0
    /\ slot = 0
    /\ idx = 0
    /\ scene = <<>>
    /\ slotLog = <<>>
    /\ ret = <<>>
    /\ console = <<>>
    /\ bounds = NoBounds
    /\ ctlColliders = <<>>
    /\ ViewInit

WalkBudget == steps < MaxWalk

NextWalk ==
    \/ BuildWall
    \/ BeginPlacement
    \/ NextSeg
    \/ HangSlot
    \/ Start
    \/ WalkBudget /\ \E k \in WalkKeys : KeyDown(k)
    \/ WalkBudget /\ \E k \in WalkKeys : KeyUp(k)
    \/ WalkBudget /\ \E b \in BOOLEAN : PointerLockChange(b)
    \/ WalkBudget /\ \E m \in WalkMoves : TurnInRange(m[1]) /\ MouseMove(m[1], m[2])
    \/ WalkBudget /\ \E e \in WalkElapsed : Loop(e)

SpecWalk == InitWalk /\ [][NextWalk]_vars

\* p and q lie on opposite sides of the grown collider c, across its z extent
\* or across its x extent
Crossed(c, p, q) ==
    \/ /\ p.x > c.minX - PlayerRadius /\ p.x < c.maxX + PlayerRadius
       /\ q.x > c.minX - PlayerRadius /\ q.x < c.maxX + PlayerRadius
       /\ \/ p.z <= c.minZ - PlayerRadius /\ q.z >= c.maxZ + PlayerRadius
          \/ q.z <= c.minZ - PlayerRadius /\ p.z >= c.maxZ + PlayerRadius
    \/ /\ p.z > c.minZ - PlayerRadius /\ p.z < c.maxZ + PlayerRadius
       /\ q.z > c.minZ - PlayerRadius /\ q.z < c.maxZ + PlayerRadius
       /\ \/ p.x <= c.minX - PlayerRadius /\ q.x >= c.maxX + PlayerRadius
          \/ q.x <= c.minX - PlayerRadius /\ p.x >= c.maxX + PlayerRadius

\* (x, z) is strictly inside the collider c grown by 0.35 on every side
InsideGrown(c, x, z) ==
    /\ c.minX - 350 < x /\ x < c.maxX + 350
    /\ c.minZ - 350 < z /\ z < c.maxZ + 350

====
